---- MODULE Spec2Model ----
(***************************************************************************)
(* A model of the generic stack of src/stack.c: a growable array of        *)
(* element handles whose copying, release and comparison are delegated to  *)
(* caller-supplied functions.                                              *)
(*                                                                         *)
(* Two stack objects are modelled: "s", built by new_stack, and "c", the   *)
(* stack that clone() builds.  Element handles are the pointers returned   *)
(* by the caller's copy function; every call of it yields a fresh handle.  *)
(***************************************************************************)
EXTENDS Integers, Sequences, FiniteSets

\* ---------------------------------------------------------------- bounds
\* Copies (element handles) made in a run in which any operation may follow any.
MaxHandles == 2
\* Element values the caller pushes: 1..MaxVal.
MaxVal == 2
\* Copies made by the pushes of a driver run; it exceeds the initial capacity.
MaxPush == 9
\* Elements a scenario run pushes before it uses the stack.
MaxFill == 4

\* ------------------------------------------------------------- constants
STACK_INITIAL_CAPACITY == 8

NULL == 0
\* The content of a slot that malloc/realloc handed out and nobody wrote.
Indet == -1

Values == 1..MaxVal
\* Handles: a driver run may clone a stack of MaxPush elements.
HeapSize == IF MaxHandles > 2 * MaxPush THEN MaxHandles ELSE 2 * MaxPush
Handles == 1..HeapSize
StackIds == {"s", "c"}

VARIABLES
  st,        \* st[k]: the struct Stack of stack k (or its absence)
  heap,      \* the elements: their values, owners, releases; handles handed out
  op,        \* the last operation performed
  tgt,       \* the stack it was called on
  arg,       \* the value of its element argument (0: it takes none)
  ret,       \* its return value
  arr,       \* the array it returned, if it was to_array (<<>>: none)
  outSize,   \* *out_size as it wrote it, if it was to_array (Indet: not written)
  pc,        \* "running", or how the process ended: "exited" by exit(), or
             \* "crashed" at a null pointer that was called or read through
             \* (undefined behaviour: nothing is modelled after it)
  mode,      \* "off": any operation may follow any; else the driver's position
  pushLog,   \* driver: the handles stored by its pushes since the stack was empty
  popLog     \* driver: the handles its pops returned, in order

vars == <<st, heap, op, tgt, arg, ret, arr, outSize, pc, mode, pushLog, popLog>>

result == <<op, tgt, arg, ret, arr, outSize>>
driver == <<mode, pushLog, popLog>>

\* ------------------------------------------------------------ struct Stack
\* A stack that does not exist (never constructed, or freed).
NoStack == [exists |-> FALSE, data |-> <<>>, size |-> 0, capacity |-> 0, cmp |-> FALSE]

\* Slot i of the C array data[] is data[i + 1] here.
Slot(S, i) == S.data[i + 1]

\* A block of n fresh slots as malloc/realloc hands them out.
FreshSlots(n) == [i \in 1..n |-> Indet]

\* new_stack: capacity 8, an uninitialised array, size 0, the functions stored.
\* (variant: no initial buffer, capacity 0)
new_stack_unallocated(cmp_func) ==
  [exists |-> TRUE, data |-> <<>>, size |-> 0, capacity |-> 0, cmp |-> cmp_func]

new_stack(cmp_func) ==
  [exists |-> TRUE,
   data |-> FreshSlots(STACK_INITIAL_CAPACITY),
   size |-> 0,
   capacity |-> STACK_INITIAL_CAPACITY,
   cmp |-> cmp_func]

\* grow: the new capacity, then realloc (old slots kept, new ones unwritten).
\* (variant: the buffer grows by one slot, not by doubling)
new_capacity_plus_one(S) == S.capacity + 1

new_capacity(S) == IF S.capacity # 0 THEN S.capacity * 2 ELSE STACK_INITIAL_CAPACITY

\* (variant: malloc in place of realloc, the old slots are not carried over)
grow_malloc(S) ==
  [S EXCEPT !.data = FreshSlots(new_capacity(S)),
            !.capacity = new_capacity(S)]

grow(S) ==
  [S EXCEPT !.data = S.data \o FreshSlots(new_capacity(S) - S.capacity),
            !.capacity = new_capacity(S)]

\* grow when realloc returns NULL: the process exits before data and capacity
\* are assigned; realloc has left the old block as it was.
\* (variant: the capacity is assigned before the result of realloc is tested)
grow_failed_capacity_set(S) == [S EXCEPT !.capacity = new_capacity(S)]

grow_failed(S) == S

\* push, given the handle h that stack->copy(element) returned.
push_grown(S) == IF S.size = S.capacity THEN grow(S) ELSE S

push_store(S, h) ==
  [push_grown(S) EXCEPT !.data[S.size + 1] = h, !.size = S.size + 1]

\* pop on a non-empty stack: --size, the element read, the slot set to NULL.
\* (variant: the element read at the bottom, data[0])
pop_element_bottom(S) == Slot(S, 0)

pop_element(S) == Slot(S, S.size - 1)

\* (variant: NULL is written to slot 0, not to the vacated slot)
pop_remove_null_bottom(S) ==
  [S EXCEPT !.size = S.size - 1, !.data[1] = NULL]

\* (variant: the vacated slot is not set to NULL)
pop_remove_keep(S) == [S EXCEPT !.size = S.size - 1]

pop_remove(S) ==
  [S EXCEPT !.size = S.size - 1, !.data[S.size] = NULL]

\* peek
\* (variant: the bottom element, data[0], is returned)
peek_value_bottom(S) == IF S.size = 0 THEN NULL ELSE Slot(S, 0)

\* (variant: no emptiness check, data[size - 1] read out of bounds)
peek_value_unchecked(S) == IF S.size = 0 THEN Indet ELSE Slot(S, S.size - 1)

peek_value(S) == IF S.size = 0 THEN NULL ELSE Slot(S, S.size - 1)

\* clear: the stack after the loop (the slots are left as they are).
\* (variant: size is not reset)
clear_stack_keep_size(S) == S

\* (variant: the buffer is given back to its initial capacity)
clear_stack_shrink(S) ==
  [S EXCEPT !.size = 0,
            !.capacity = STACK_INITIAL_CAPACITY,
            !.data = SubSeq(S.data, 1, STACK_INITIAL_CAPACITY)]

clear_stack(S) == [S EXCEPT !.size = 0]

\* is_empty, size, capacity
is_empty(S) == S.size = 0
size(S) == S.size
capacity(S) == S.capacity

\* ------------------------------------------------------------ the elements
\* heap.val[h]   the value of the element behind handle h (0: no element)
\* heap.owner[h] "unalloc", the stack that holds h, "caller" (handed out by pop
\*               or to_array), or "released"
\* heap.rel[h]   how many times a stack called free_func on h (2: twice or more)
\* heap.nh       how many handles the copy function has returned
EmptyHeap ==
  [val |-> [h \in Handles |-> 0],
   owner |-> [h \in Handles |-> "unalloc"],
   rel |-> [h \in Handles |-> 0],
   nh |-> 0]

\* stack->copy(element) for an element of value v, called on behalf of `who`:
\* a fresh handle to an independent element of the same value.
copy_handle(H) == H.nh + 1

copy(H, v, who) ==
  [H EXCEPT !.val[H.nh + 1] = v, !.owner[H.nh + 1] = who, !.nh = H.nh + 1]

\* stack->free_func(h): the element is gone.  A handle the caller owns stays
\* the caller's; the call is counted all the same.
free_func(H, h) ==
  IF h \in Handles
  THEN [H EXCEPT !.rel[h] = IF @ < 2 THEN @ + 1 ELSE 2,
                 !.owner[h] = IF @ = "caller" THEN @ ELSE "released",
                 !.val[h] = IF H.owner[h] = "caller" THEN @ ELSE 0]
  ELSE H

\* The value an element pointer points at (element pointers of the stack are
\* handles; a slot that holds none yields 0).
deref(H, h) == IF h \in Handles THEN H.val[h] ELSE 0

\* clear: for (i = 0; i < size; ++i) free_func(data[i]);
RECURSIVE clear_loop(_, _, _)
clear_loop(S, i, H) ==
  IF i < S.size THEN clear_loop(S, i + 1, free_func(H, Slot(S, i))) ELSE H

\* contains: the scan from index i on; TRUE at the first element with cmp == 0.
cmp(a, b) == IF a = b THEN 0 ELSE IF a < b THEN -1 ELSE 1

\* contains reaches a call of stack->cmp, and with cmp NULL a call through a
\* null function pointer, exactly if the loop body runs: size > 0.
\* (variant: a NULL comparator is never called, as if contains tested it)
contains_null_call_never(S) == FALSE

contains_null_call(S) == ~S.cmp /\ S.size > 0

\* (variant: the scan stops after the first element)
contains_loop_first_only(S, H, v, i) ==
  i < S.size /\ cmp(deref(H, Slot(S, i)), v) = 0

RECURSIVE contains_loop(_, _, _, _)
contains_loop(S, H, v, i) ==
  IF i < S.size
  THEN IF cmp(deref(H, Slot(S, i)), v) = 0 THEN TRUE ELSE contains_loop(S, H, v, i + 1)
  ELSE FALSE

\* clone: for (i = 0; i < size; ++i) push(clone, data[i]);  the pair of the
\* clone and the heap after the loop.
\* (variant: the elements are pushed from the top down)
RECURSIVE clone_loop_top_down(_, _, _, _, _)
clone_loop_top_down(src, i, C, H, who) ==
  IF i < src.size
  THEN clone_loop_top_down(src, i + 1,
                  push_store(C, copy_handle(H)),
                  copy(H, deref(H, Slot(src, src.size - 1 - i)), who), who)
  ELSE [stack |-> C, heap |-> H]

\* (variant: the source's handles are stored, not copies of the elements)
RECURSIVE clone_loop_shallow(_, _, _, _, _)
clone_loop_shallow(src, i, C, H, who) ==
  IF i < src.size
  THEN clone_loop_shallow(src, i + 1, push_store(C, Slot(src, i)), H, who)
  ELSE [stack |-> C, heap |-> H]

RECURSIVE clone_loop(_, _, _, _, _)
clone_loop(src, i, C, H, who) ==
  IF i < src.size
  THEN clone_loop(src, i + 1,
                  push_store(C, copy_handle(H)),
                  copy(H, deref(H, Slot(src, i)), who), who)
  ELSE [stack |-> C, heap |-> H]

\* reverse: while (left < right) swap data[left], data[right].
\* (variant: right is not decremented)
RECURSIVE reverse_loop_fixed_right(_, _, _)
reverse_loop_fixed_right(data, left, right) ==
  IF left < right
  THEN reverse_loop_fixed_right([data EXCEPT ![left + 1] = data[right + 1],
                                             ![right + 1] = data[left + 1]],
                                left + 1, right)
  ELSE data

RECURSIVE reverse_loop(_, _, _)
reverse_loop(data, left, right) ==
  IF left < right
  THEN reverse_loop([data EXCEPT ![left + 1] = data[right + 1],
                                 ![right + 1] = data[left + 1]],
                    left + 1, right - 1)
  ELSE data

\* (variant: the whole buffer is reversed, right = capacity - 1)
reverse_stack_whole_buffer(S) ==
  IF S.size = 0 THEN S ELSE [S EXCEPT !.data = reverse_loop(S.data, 0, S.capacity - 1)]

reverse_stack(S) ==
  IF S.size = 0 THEN S ELSE [S EXCEPT !.data = reverse_loop(S.data, 0, S.size - 1)]

\* to_array: for (i = 0; i < size; ++i) array[i] = copy(data[i]);
\* (variant: the elements are copied from the top down)
RECURSIVE to_array_loop_top_down(_, _, _, _)
to_array_loop_top_down(S, i, array, H) ==
  IF i < S.size
  THEN to_array_loop_top_down(S, i + 1, Append(array, copy_handle(H)),
                              copy(H, deref(H, Slot(S, S.size - 1 - i)), "caller"))
  ELSE [array |-> array, heap |-> H]

RECURSIVE to_array_loop(_, _, _, _)
to_array_loop(S, i, array, H) ==
  IF i < S.size
  THEN to_array_loop(S, i + 1, Append(array, copy_handle(H)),
                     copy(H, deref(H, Slot(S, i)), "caller"))
  ELSE [array |-> array, heap |-> H]

\* ------------------------------------------------------------------- Init
\* The state after s = new_stack(copy, free, cmp_func); cmp_func may be NULL.
\* A run is either one in which any operation may follow any (mode "off",
\* MaxHandles copies), or a driver run: the caller fills the stack with up to
\* MaxPush elements, clearing it at will, then empties it pop by pop or
\* clones it (a driver run never calls contains; its stack has a comparator).
Init ==
  /\ mode \in {"off", "pushing"}
  /\ \E cmp_func \in (IF mode = "off" THEN BOOLEAN ELSE {TRUE}) :
       st = [k \in StackIds |-> IF k = "s" THEN new_stack(cmp_func) ELSE NoStack]
  /\ heap = EmptyHeap
  /\ op = "new_stack"
  /\ tgt = "s"
  /\ arg = 0
  /\ ret = NULL
  /\ arr = <<>>
  /\ outSize = Indet
  /\ pc = "running"
  /\ pushLog = <<>>
  /\ popLog = <<>>

Running == pc = "running"

\* Copies the run may still make.
Limit == IF mode = "off" THEN MaxHandles ELSE MaxPush

\* The call o(k, element of value a) returns r: no array, *out_size unwritten.
Returns(o, k, a, r) ==
  /\ op' = o
  /\ tgt' = k
  /\ arg' = a
  /\ ret' = r
  /\ arr' = <<>>
  /\ outSize' = Indet

\* exit(EXIT_FAILURE) inside the call o(k, element of value a); nothing else
\* is written before it.
Exit(o, k, a) ==
  /\ pc' = "exited"
  /\ op' = o
  /\ tgt' = k
  /\ arg' = a
  /\ UNCHANGED <<st, heap, ret, arr, outSize>>

\* ------------------------------------------------------------- operations
\* push(stack k, element of value v)
Push(k, v) ==
  /\ Running
  /\ st[k].exists
  /\ \/ /\ heap.nh < Limit
        /\ st' = [st EXCEPT ![k] = push_store(@, copy_handle(heap))]
        /\ heap' = copy(heap, v, k)
        /\ Returns("push", k, v, NULL)
        /\ UNCHANGED pc
     \/ /\ st[k].size = st[k].capacity      \* realloc fails inside grow
        /\ st' = [st EXCEPT ![k] = grow_failed(@)]
        /\ pc' = "exited"
        /\ op' = "push"
        /\ tgt' = k
        /\ arg' = v
        /\ UNCHANGED <<heap, ret, arr, outSize>>

\* pop(stack k)
Pop(k) ==
  /\ Running
  /\ st[k].exists
  /\ IF st[k].size = 0
     THEN /\ Returns("pop", k, 0, NULL)
          /\ UNCHANGED <<st, heap>>
     ELSE /\ Returns("pop", k, 0, pop_element(st[k]))
          /\ st' = [st EXCEPT ![k] = pop_remove(@)]
          /\ heap' = [heap EXCEPT !.owner[pop_element(st[k])] = "caller"]
  /\ UNCHANGED pc

\* peek(stack k)
Peek(k) ==
  /\ Running
  /\ st[k].exists
  /\ Returns("peek", k, 0, peek_value(st[k]))
  /\ UNCHANGED <<st, heap, pc>>

\* clear(stack k)
Clear(k) ==
  /\ Running
  /\ st[k].exists
  /\ heap' = clear_loop(st[k], 0, heap)
  /\ st' = [st EXCEPT ![k] = clear_stack(@)]
  /\ Returns("clear", k, 0, NULL)
  /\ UNCHANGED pc

\* free_stack(stack k): clear, then free(data) and free(stack)
FreeStack(k) ==
  /\ Running
  /\ st[k].exists
  /\ heap' = clear_loop(st[k], 0, heap)
  /\ st' = [st EXCEPT ![k] = NoStack]
  /\ Returns("free_stack", k, 0, NULL)
  /\ UNCHANGED pc

\* contains(stack k, element of value v); with cmp NULL the first comparison
\* is a call through a null function pointer.
Contains(k, v) ==
  /\ Running
  /\ st[k].exists
  /\ IF contains_null_call(st[k])
     THEN /\ pc' = "crashed"
          /\ op' = "contains"
          /\ tgt' = k
          /\ arg' = v
          /\ UNCHANGED <<ret, arr, outSize>>
     ELSE /\ Returns("contains", k, v, contains_loop(st[k], heap, v, 0))
          /\ UNCHANGED pc
  /\ UNCHANGED <<st, heap>>

\* d = clone(stack k)
Clone(k, d) ==
  /\ Running
  /\ st[k].exists
  /\ ~st[d].exists
  /\ \/ /\ heap.nh + st[k].size <= (IF mode = "off" THEN Limit ELSE HeapSize)
        /\ LET r == clone_loop(st[k], 0, new_stack(st[k].cmp), heap, d)
           IN /\ st' = [st EXCEPT ![d] = r.stack]
              /\ heap' = r.heap
        /\ Returns("clone", k, 0, NULL)
        /\ UNCHANGED pc
     \/ /\ Exit("clone", k, 0)                     \* malloc fails inside new_stack

\* reverse(stack k)
Reverse(k) ==
  /\ Running
  /\ st[k].exists
  /\ st' = [st EXCEPT ![k] = reverse_stack(@)]
  /\ Returns("reverse", k, 0, NULL)
  /\ UNCHANGED <<heap, pc>>

\* to_array(stack k, out_size); want: out_size is not NULL
ToArray(k, want) ==
  /\ Running
  /\ st[k].exists
  /\ IF st[k].size = 0
     THEN /\ op' = "to_array"
          /\ tgt' = k
          /\ arg' = 0
          /\ ret' = NULL
          /\ arr' = <<>>
          /\ outSize' = IF want THEN 0 ELSE Indet
          /\ UNCHANGED <<st, heap, pc>>
     ELSE \/ /\ heap.nh + st[k].size <= Limit
             /\ LET r == to_array_loop(st[k], 0, <<>>, heap)
                IN /\ arr' = r.array
                   /\ heap' = r.heap
             /\ op' = "to_array"
             /\ tgt' = k
             /\ arg' = 0
             /\ ret' = 1
             /\ outSize' = IF want THEN st[k].size ELSE Indet
             /\ UNCHANGED <<st, pc>>
          \/ /\ Exit("to_array", k, 0)             \* malloc of the array fails

\* is_empty(stack k), size(stack k), capacity(stack k)
IsEmpty(k) ==
  /\ Running
  /\ st[k].exists
  /\ Returns("is_empty", k, 0, is_empty(st[k]))
  /\ UNCHANGED <<st, heap, pc>>

Size(k) ==
  /\ Running
  /\ st[k].exists
  /\ Returns("size", k, 0, size(st[k]))
  /\ UNCHANGED <<st, heap, pc>>

Capacity(k) ==
  /\ Running
  /\ st[k].exists
  /\ Returns("capacity", k, 0, capacity(st[k]))
  /\ UNCHANGED <<st, heap, pc>>

\* k = new_stack(copy, free, cmp_func); if either malloc fails the process
\* exits (the struct is freed first when the second one fails).
NewStack(k, cmp_func) ==
  /\ Running
  /\ ~st[k].exists
  /\ \/ /\ st' = [st EXCEPT ![k] = new_stack(cmp_func)]
        /\ Returns("new_stack", k, 0, NULL)
        /\ UNCHANGED <<heap, pc>>
     \/ /\ Exit("new_stack", k, 0)

\* ------------------------------------------- calls with a NULL stack pointer
\* The target of a call whose stack argument is NULL.
NullStack == "null"

\* if (!stack) return <r>;  nothing is read or written.
ReturnsOnNull(o, a, r) ==
  /\ Running
  /\ Returns(o, NullStack, a, r)
  /\ UNCHANGED <<st, heap, pc>>

\* stack->size read through the NULL pointer: undefined behaviour, a trap.
NullDeref(o) ==
  /\ Running
  /\ pc' = "crashed"
  /\ op' = o
  /\ tgt' = NullStack
  /\ arg' = 0
  /\ UNCHANGED <<st, heap, ret, arr, outSize>>

FreeStackNull == ReturnsOnNull("free_stack", 0, NULL)
PushNull(v) == ReturnsOnNull("push", v, NULL)
PopNull == ReturnsOnNull("pop", 0, NULL)
PeekNull == ReturnsOnNull("peek", 0, NULL)
ClearNull == ReturnsOnNull("clear", 0, NULL)
IsEmptyNull == ReturnsOnNull("is_empty", 0, TRUE)
SizeNull == ReturnsOnNull("size", 0, 0)
CapacityNull == ReturnsOnNull("capacity", 0, 0)
ContainsNull(v) == ReturnsOnNull("contains", v, FALSE)
CloneNull == ReturnsOnNull("clone", 0, NULL)
\* reverse and to_array test stack->size first, with no test of the pointer.
ReverseNull == NullDeref("reverse")
ToArrayNull == NullDeref("to_array")

\* ----------------------------------------------------------------- driver
\* The caller of a driver run: it pushes (and may clear, which starts the
\* filling afresh), then pops until pop returns NULL, releasing each element
\* pop returned, as pop's contract asks of the caller; then it may free the
\* stack.  Instead of popping it may end the filling by cloning the stack.
DrvPush(v) ==
  /\ mode = "pushing"
  /\ Push("s", v)
  /\ pushLog' = IF pc' = "running" THEN Append(pushLog, copy_handle(heap)) ELSE pushLog
  /\ UNCHANGED <<mode, popLog>>

DrvClear ==
  /\ mode = "pushing"
  /\ Clear("s")
  /\ pushLog' = <<>>
  /\ UNCHANGED <<mode, popLog>>

DrvPop ==
  /\ mode \in {"pushing", "popping"}
  /\ Pop("s")
  /\ popLog' = Append(popLog, ret')
  /\ mode' = IF ret' = NULL THEN "done" ELSE "popped"
  /\ UNCHANGED pushLog

\* The caller frees the element that pop returned.
DrvRelease ==
  /\ mode = "popped"
  /\ Running
  /\ heap' = [heap EXCEPT !.val[ret] = 0]
  /\ Returns("free_func", tgt, 0, NULL)
  /\ mode' = "popping"
  /\ UNCHANGED <<st, pc, pushLog, popLog>>

DrvClone ==
  /\ mode = "pushing"
  /\ Clone("s", "c")
  /\ pc' = "running"                       \* the allocations succeed
  /\ mode' = "cloned"
  /\ UNCHANGED <<pushLog, popLog>>

DrvFree ==
  /\ mode = "done"
  /\ FreeStack("s")
  /\ UNCHANGED driver

\* A run in which any operation may follow any, on either stack.
Any == mode = "off" /\ UNCHANGED driver

Next ==
  \/ \E k \in StackIds, v \in Values : Any /\ Push(k, v)
  \/ \E k \in StackIds : Any /\ Pop(k)
  \/ \E k \in StackIds : Any /\ Peek(k)
  \/ \E k \in StackIds : Any /\ Clear(k)
  \/ \E k \in StackIds : Any /\ FreeStack(k)
  \/ \E k \in StackIds, v \in Values : Any /\ Contains(k, v)
  \/ \E k \in StackIds, d \in StackIds : Any /\ Clone(k, d)
  \/ \E k \in StackIds : Any /\ Reverse(k)
  \/ \E k \in StackIds, want \in BOOLEAN : Any /\ ToArray(k, want)
  \/ \E v \in Values : DrvPush(v)
  \/ DrvClear
  \/ DrvPop
  \/ DrvRelease
  \/ DrvClone
  \/ DrvFree

Spec == Init /\ [][Next]_vars

\* ---------------------------------------------------------- scenario runs
\* A scenario run fills the stack s with up to MaxFill elements (pushLog: the
\* handles stored, bottom first), may then shape it by pops, peeks and clears,
\* and ends with one more call of any operation, the probe.  Right after the
\* filling the probe may also be a call with a NULL stack pointer or the
\* construction of a second stack.  Or, after the filling, the run reverses
\* the stack and pops it empty (popLog: the handles returned), or reverses it
\* twice.
InitUse ==
  /\ mode = "filling"
  /\ \E cmp_func \in BOOLEAN :
       st = [k \in StackIds |-> IF k = "s" THEN new_stack(cmp_func) ELSE NoStack]
  /\ heap = EmptyHeap
  /\ op = "new_stack"
  /\ tgt = "s"
  /\ arg = 0
  /\ ret = NULL
  /\ arr = <<>>
  /\ outSize = Indet
  /\ pc = "running"
  /\ pushLog = <<>>
  /\ popLog = <<>>

FillPush(v) ==
  /\ mode = "filling"
  /\ st["s"].size < MaxFill
  /\ Push("s", v)
  /\ pushLog' = Append(pushLog, copy_handle(heap))
  /\ UNCHANGED <<mode, popLog>>

Shape ==
  /\ mode \in {"filling", "shaping"}
  /\ mode' = "shaping"
  /\ UNCHANGED <<pushLog, popLog>>

Probe ==
  /\ mode \in {"filling", "shaping"}
  /\ mode' = "probed"
  /\ UNCHANGED <<pushLog, popLog>>

FirstProbe ==
  /\ mode = "filling"
  /\ mode' = "probed"
  /\ UNCHANGED <<pushLog, popLog>>

RevOnce ==
  /\ mode = "filling"
  /\ Reverse("s")
  /\ mode' = "reversed"
  /\ UNCHANGED <<pushLog, popLog>>

RevTwice ==
  /\ mode = "reversed"
  /\ Reverse("s")
  /\ mode' = "restored"
  /\ UNCHANGED <<pushLog, popLog>>

RevPop ==
  /\ mode \in {"reversed", "rpopping"}
  /\ Pop("s")
  /\ popLog' = Append(popLog, ret')
  /\ mode' = IF ret' = NULL THEN "rdone" ELSE "rpopping"
  /\ UNCHANGED pushLog

NextUse ==
  \/ \E v \in Values : FillPush(v)
  \/ Shape /\ Pop("s")
  \/ Shape /\ Peek("s")
  \/ Shape /\ Clear("s")
  \/ Probe /\ Pop("s")
  \/ Probe /\ Peek("s")
  \/ Probe /\ Clear("s")
  \/ Probe /\ FreeStack("s")
  \/ \E v \in Values : Probe /\ Contains("s", v)
  \/ Probe /\ Clone("s", "c")
  \/ Probe /\ Reverse("s")
  \/ \E want \in BOOLEAN : Probe /\ ToArray("s", want)
  \/ Probe /\ IsEmpty("s")
  \/ Probe /\ Size("s")
  \/ Probe /\ Capacity("s")
  \/ \E cmp_func \in BOOLEAN : FirstProbe /\ NewStack("c", cmp_func)
  \/ FirstProbe /\ FreeStackNull
  \/ \E v \in Values : FirstProbe /\ PushNull(v)
  \/ FirstProbe /\ PopNull
  \/ FirstProbe /\ PeekNull
  \/ FirstProbe /\ ClearNull
  \/ FirstProbe /\ IsEmptyNull
  \/ FirstProbe /\ SizeNull
  \/ FirstProbe /\ CapacityNull
  \/ \E v \in Values : FirstProbe /\ ContainsNull(v)
  \/ FirstProbe /\ CloneNull
  \/ FirstProbe /\ ReverseNull
  \/ FirstProbe /\ ToArrayNull
  \/ RevOnce
  \/ RevTwice
  \/ RevPop

SpecUse == InitUse /\ [][NextUse]_vars

\* ------------------------------------------------------------- properties
\* The live slots of stack S, and the handles and values in them, bottom first.
LiveIdx(S) == 0..(S.size - 1)
DeadIdx(S) == S.size..(S.capacity - 1)
LiveSet(S) == {Slot(S, i) : i \in LiveIdx(S)}
Contents(S, H) == [i \in 1..S.size |-> deref(H, S.data[i])]
Existing == {k \in StackIds : st[k].exists}

\* C1: LIFO order.  In a driver run that pushed e1..en onto the empty stack
\* (n may exceed the initial capacity) and then pops, the i-th pop returns the
\* handle stored by the (n+1-i)-th push, an element that is intact and now the
\* caller's; after n pops the stack is empty, and the next pop returns NULL.
C1_LIFO ==
  mode \in {"popped", "popping", "done"} =>
    LET n == Len(pushLog)
        m == Len(popLog)
    IN /\ m <= n + 1
       /\ \A i \in 1..m :
            IF i <= n THEN popLog[i] = pushLog[n + 1 - i] ELSE popLog[i] = NULL
       /\ st["s"].exists => size(st["s"]) = IF m <= n THEN n - m ELSE 0
       /\ mode = "popped" =>
            /\ ret = popLog[m]
            /\ heap.val[ret] \in Values
            /\ heap.owner[ret] = "caller"
            /\ heap.rel[ret] = 0
       /\ mode = "done" =>
            /\ m = n + 1
            /\ st["s"].exists => is_empty(st["s"])

\* Witness of C1: a run that pushed 9 elements, which grew the stack, and
\* popped 10 times, the last pop returning NULL.
C1_Witness ==
  /\ mode = "done"
  /\ op = "pop"
  /\ st["s"].exists
  /\ Len(pushLog) = STACK_INITIAL_CAPACITY + 1
  /\ Len(popLog) = STACK_INITIAL_CAPACITY + 2
  /\ st["s"].capacity = 2 * STACK_INITIAL_CAPACITY

\* C2 as stated: every slot below size holds a live element handle, and every
\* slot from size on holds nothing: it is NULL (or was never written).
C2_SlotsNullOrUnused ==
  \A k \in Existing :
    /\ \A i \in LiveIdx(st[k]) :
         /\ Slot(st[k], i) \in Handles
         /\ heap.owner[Slot(st[k], i)] = k
    /\ \A i \in DeadIdx(st[k]) : Slot(st[k], i) \in {NULL, Indet}

\* C2 (amended): every slot below size holds a live, non-null element handle
\* owned by this stack and not released; every slot from size on is unused:
\* it holds NULL (vacated by pop), an unwritten value (after construction or
\* growth), or the stale handle of an element the stack released in clear.
C2_SlotInvariant ==
  \A k \in Existing :
    /\ Len(st[k].data) = st[k].capacity
    /\ \A i \in LiveIdx(st[k]) :
         /\ Slot(st[k], i) \in Handles
         /\ Slot(st[k], i) # NULL
         /\ heap.owner[Slot(st[k], i)] = k
         /\ heap.rel[Slot(st[k], i)] = 0
    /\ \A i \in DeadIdx(st[k]) :
         \/ Slot(st[k], i) = NULL
         \/ Slot(st[k], i) = Indet
         \/ /\ Slot(st[k], i) \in Handles
            /\ heap.owner[Slot(st[k], i)] = "released"

\* Witness of C2: right after the clear of a grown stack of 9 elements: the
\* slots hold the stale handles that clear released and, from slot 9 on, the
\* unwritten values that realloc left.
C2_Witness ==
  /\ st["s"].exists
  /\ st["s"].capacity = 2 * STACK_INITIAL_CAPACITY
  /\ op = "clear"
  /\ st["s"].size = 0
  /\ Slot(st["s"], 8) \in Handles
  /\ heap.owner[Slot(st["s"], 8)] = "released"
  /\ Slot(st["s"], 9) = Indet

\* C3: ownership.  Every handle the copy function returned is in exactly one
\* condition: held in a live slot of an existing stack and never released;
\* handed to the caller (by pop or to_array) and never released by a stack;
\* or released exactly once.  So no element is released twice, none after pop
\* returned it, and none owned by a cleared or freed stack is left unreleased.
C3_Inv ==
  LET live == [k \in StackIds |-> IF st[k].exists THEN LiveSet(st[k]) ELSE {}]
  IN /\ \A h \in (heap.nh + 1)..HeapSize :
          heap.owner[h] = "unalloc" /\ heap.rel[h] = 0
     /\ \A h \in 1..heap.nh :
          \/ heap.owner[h] = "caller" /\ heap.rel[h] = 0
          \/ heap.owner[h] = "released" /\ heap.rel[h] = 1
          \/ /\ heap.owner[h] \in StackIds
             /\ heap.rel[h] = 0
             /\ h \in live[heap.owner[h]]

\* A step takes a handle away from a stack only by releasing it once, or by
\* pop returning it to the caller unreleased.
C3_Step ==
  \A h \in 1..heap.nh :
    (heap.owner[h] \in StackIds /\ heap'.owner[h] # heap.owner[h]) =>
      \/ /\ heap'.owner[h] = "released"
         /\ heap'.rel[h] = 1
         /\ op' \in {"clear", "free_stack"}
      \/ /\ heap'.owner[h] = "caller"
         /\ heap'.rel[h] = 0
         /\ op' = "pop"
         /\ ret' = h

\* C3: ownership holds in every state, and every step hands handles on as
\* described: released exactly once by clear or free_stack, or returned by pop.
C3_Ownership == [](C3_Inv) /\ [][C3_Step]_vars

\* Witness of C3: a run that ended in free_stack after clear had released
\* elements once and pop had returned another, which the stack never released.
C3_Witness ==
  /\ mode = "done"
  /\ op = "free_stack"
  /\ ~st["s"].exists
  /\ Len(popLog) >= 2
  /\ heap.owner[popLog[1]] = "caller"
  /\ heap.rel[popLog[1]] = 0
  /\ \E h \in Handles : heap.owner[h] = "released" /\ heap.rel[h] = 1

\* C4: push.  A push that returns leaves size one larger; the capacity is
\* exactly doubled if size was equal to capacity and unchanged otherwise;
\* every element stored before keeps its index, handle and value; and the
\* slot at the old size holds a fresh handle whose element carries the value
\* of the element pushed.
C4_Step ==
  \A k \in StackIds :
    (op' = "push" /\ pc' = "running" /\ tgt' = k) =>
      /\ st'[k].size = st[k].size + 1
      /\ st'[k].capacity =
           IF st[k].size = st[k].capacity THEN 2 * st[k].capacity ELSE st[k].capacity
      /\ Len(st'[k].data) = st'[k].capacity
      /\ \A i \in LiveIdx(st[k]) :
           /\ Slot(st'[k], i) = Slot(st[k], i)
           /\ heap'.val[Slot(st[k], i)] = heap.val[Slot(st[k], i)]
      /\ Slot(st'[k], st[k].size) \in Handles
      /\ heap.owner[Slot(st'[k], st[k].size)] = "unalloc"
      /\ heap'.owner[Slot(st'[k], st[k].size)] = k
      /\ heap'.val[Slot(st'[k], st[k].size)] = arg'

\* C4: every step that is a returning push is as described above.
C4_PushGrowth == [][C4_Step]_vars

\* Witness of C4: the ninth push, which found size = capacity = 8 and grew.
C4_Witness ==
  /\ op = "push"
  /\ tgt = "s"
  /\ pc = "running"
  /\ st["s"].size = STACK_INITIAL_CAPACITY + 1
  /\ st["s"].capacity = 2 * STACK_INITIAL_CAPACITY
  /\ Contents(st["s"], heap)[1] # Contents(st["s"], heap)[2]

\* C5: in every state, every constructed stack has 0 <= size <= capacity and
\* capacity >= 8, its buffer has capacity slots, and so the capacity is never
\* 0 when grow is reached.
C5_Bounds ==
  \A k \in Existing :
    /\ 0 <= st[k].size
    /\ st[k].size <= st[k].capacity
    /\ st[k].capacity >= STACK_INITIAL_CAPACITY
    /\ st[k].capacity # 0
    /\ Len(st[k].data) = st[k].capacity

\* Witness of C5: a full stack (size = capacity), where the next push grows.
C5_Witness ==
  /\ st["s"].exists
  /\ st["s"].size = st["s"].capacity
  /\ op = "push"

\* C6: across any step, the capacity of a stack that exists before and after
\* does not decrease; it changes only in a push on that stack that found
\* size = capacity, and then to exactly twice its value.
C6_Step ==
  \A k \in StackIds :
    (st[k].exists /\ st'[k].exists) =>
      /\ st'[k].capacity >= st[k].capacity
      /\ st'[k].capacity # st[k].capacity =>
           /\ op' = "push"
           /\ tgt' = k
           /\ st[k].size = st[k].capacity
           /\ st'[k].capacity = 2 * st[k].capacity

\* C6: on every step the capacity is kept, or doubled by a push on a full stack.
C6_CapacityMonotone == [][C6_Step]_vars

\* Witness of C6: a pop from a grown stack, which keeps the capacity of 16.
C6_Witness ==
  /\ op = "pop"
  /\ ret # NULL
  /\ st["s"].exists
  /\ st["s"].size = STACK_INITIAL_CAPACITY
  /\ st["s"].capacity = 2 * STACK_INITIAL_CAPACITY

\* C7: pop and peek on an empty stack return NULL, the process keeps running,
\* and the stack (size, capacity, slots) and the elements are unchanged.
C7_Step ==
  \A k \in StackIds :
    (op' \in {"pop", "peek"} /\ tgt' = k /\ st[k].size = 0) =>
      /\ ret' = NULL
      /\ pc' = "running"
      /\ st' = st
      /\ heap' = heap

\* C7: every pop or peek of an empty stack returns NULL and changes nothing.
C7_EmptyPopPeek == [][C7_Step]_vars

\* Witness of C7: a pop that returned NULL from a stack emptied by pops.
C7_Witness ==
  /\ mode = "done"
  /\ op = "pop"
  /\ ret = NULL
  /\ pc = "running"
  /\ st["s"].exists
  /\ st["s"].size = 0
  /\ Len(popLog) >= 2

\* C8: after clear the stack is empty (size 0, is_empty) with the capacity it
\* had; a clear of an empty stack changes neither the stack nor the elements
\* and releases nothing, so a second clear is without effect.
C8_Step ==
  \A k \in StackIds :
    (op' = "clear" /\ tgt' = k) =>
      /\ size(st'[k]) = 0
      /\ is_empty(st'[k])
      /\ capacity(st'[k]) = capacity(st[k])
      /\ st'[k].data = st[k].data
      /\ st[k].size = 0 => (st' = st /\ heap' = heap)

\* C8: every clear empties the stack, keeps its capacity, and is without
\* effect on an empty stack.
C8_Clear == [][C8_Step]_vars

\* Witness of C8: a clear of a grown stack of 9 elements: all are released,
\* the stack is empty and the capacity is still 16.
C8_Witness ==
  /\ op = "clear"
  /\ st["s"].exists
  /\ st["s"].size = 0
  /\ st["s"].capacity = 2 * STACK_INITIAL_CAPACITY
  /\ heap.nh = STACK_INITIAL_CAPACITY + 1
  /\ \A h \in 1..heap.nh : heap.owner[h] = "released"

\* C9: clone.  The clone has the size of its source; at each index it holds a
\* fresh handle, not held by the source, to an element of the same value; the
\* source is unchanged; so the two stacks have the same contents bottom to top.
C9_Step ==
  \A k, d \in StackIds :
    (op' = "clone" /\ pc' = "running" /\ tgt' = k /\ ~st[d].exists /\ st'[d].exists) =>
      /\ st'[d].size = st[k].size
      /\ st'[k] = st[k]
      /\ \A i \in LiveIdx(st[k]) :
           /\ Slot(st'[d], i) \in Handles
           /\ heap.owner[Slot(st'[d], i)] = "unalloc"
           /\ Slot(st'[d], i) # Slot(st[k], i)
           /\ heap'.val[Slot(st'[d], i)] = heap.val[Slot(st[k], i)]
           /\ heap'.val[Slot(st[k], i)] = heap.val[Slot(st[k], i)]
      /\ Contents(st'[d], heap') = Contents(st'[k], heap')

\* C9: every returning clone yields a stack of fresh copies equal, index by
\* index, to the source's elements.
C9_CloneEqual == [][C9_Step]_vars

\* Witness of C9: the clone of a stack of 9 elements of differing values.
C9_Witness ==
  /\ op = "clone"
  /\ pc = "running"
  /\ st["c"].exists
  /\ st["c"].size = STACK_INITIAL_CAPACITY + 1
  /\ Contents(st["c"], heap)[1] # Contents(st["c"], heap)[2]

\* C10: no handle is held in live slots of two stacks (or twice in one); and
\* an operation on one stack leaves every other existing stack, and the
\* owner, value and release count of each of its elements, unchanged.
C10_Inv ==
  /\ \A k \in Existing : Cardinality(LiveSet(st[k])) = st[k].size
  /\ \A k1, k2 \in Existing : k1 # k2 => LiveSet(st[k1]) \cap LiveSet(st[k2]) = {}

C10_Step ==
  \A k \in StackIds :
    (st[k].exists /\ tgt' # k) =>
      /\ st'[k] = st[k]
      /\ \A i \in LiveIdx(st[k]) :
           /\ heap'.owner[Slot(st[k], i)] = heap.owner[Slot(st[k], i)]
           /\ heap'.val[Slot(st[k], i)] = heap.val[Slot(st[k], i)]
           /\ heap'.rel[Slot(st[k], i)] = heap.rel[Slot(st[k], i)]

\* C10: no handle is shared between live slots in any state, and no step on
\* one stack changes another stack or its elements.
C10_CloneIndependent == [](C10_Inv) /\ [][C10_Step]_vars

\* Witness of C10: a clone was freed while its source still holds elements.
C10_Witness ==
  /\ op = "free_stack"
  /\ tgt = "c"
  /\ st["s"].exists
  /\ st["s"].size >= 1
  /\ \E h \in Handles : heap.owner[h] = "released"

\* The stack s holds exactly the handles its filling stored, at the indices
\* the pushes stored them at, in a buffer of the initial capacity whose other
\* slots were never written; every element is intact and owned by s.
HoldsPushLog ==
  /\ st["s"].exists
  /\ st["s"].size = Len(pushLog)
  /\ st["s"].capacity = STACK_INITIAL_CAPACITY
  /\ \A i \in 1..Len(pushLog) : st["s"].data[i] = pushLog[i]
  /\ \A i \in DeadIdx(st["s"]) : Slot(st["s"], i) = Indet
  /\ \A h \in 1..heap.nh :
       heap.owner[h] = "s" /\ heap.rel[h] = 0 /\ heap.val[h] \in Values

\* C11: reverse is an involution.  A stack filled with n elements (n = 0, 1,
\* even, odd) holds, after two calls of reverse, the handles the filling
\* stored at the indices it stored them at, with the size and the capacity it
\* had; the elements are untouched.
C11_ReverseInvolution ==
  mode \in {"filling", "restored"} => HoldsPushLog

\* Witness of C11: a stack of 3 elements (an odd size, with a middle element)
\* after the second reverse.
C11_Witness ==
  /\ mode = "restored"
  /\ op = "reverse"
  /\ st["s"].size = 3
  /\ pushLog = <<1, 2, 3>>

\* C12: to_array.  A to_array that returns leaves every stack as it was.  On
\* a stack of size n > 0 it returns an array of n handles, the i-th a fresh
\* handle, now the caller's, to a copy of the element at index i (bottom
\* first); the copy function was called n times, nothing was released, and
\* *out_size is n if out_size was supplied (and is not written otherwise).
\* On an empty stack it returns NULL, writes 0 to *out_size if supplied, and
\* makes no copy.
C12_Step ==
  \A k \in StackIds :
    (op' = "to_array" /\ tgt' = k /\ pc' = "running") =>
      LET n == st[k].size
      IN /\ st' = st
         /\ heap'.rel = heap.rel
         /\ heap'.nh = heap.nh + n
         /\ Len(arr') = n
         /\ \A want \in BOOLEAN :
              ToArray(k, want) => outSize' = IF want THEN n ELSE Indet
         /\ IF n = 0
            THEN ret' = NULL /\ heap' = heap
            ELSE /\ ret' # NULL
                 /\ \A i \in 1..n :
                      /\ arr'[i] \in Handles
                      /\ heap.owner[arr'[i]] = "unalloc"
                      /\ heap'.owner[arr'[i]] = "caller"
                      /\ heap'.val[arr'[i]] = heap.val[st[k].data[i]]
                      /\ \A j \in 1..n : j # i => arr'[j] # arr'[i]
                 /\ \A h \in 1..heap.nh :
                      /\ heap'.val[h] = heap.val[h]
                      /\ heap'.owner[h] = heap.owner[h]

\* C12: every returning to_array is as described above.
C12_ToArray == [][C12_Step]_vars

\* Witness of C12: the array of a stack of MaxFill elements of differing
\* values, with out_size supplied.
C12_Witness ==
  /\ op = "to_array"
  /\ pc = "running"
  /\ Len(arr) = MaxFill
  /\ outSize = MaxFill
  /\ st["s"].size = MaxFill
  /\ heap.val[arr[1]] # heap.val[arr[2]]
  /\ heap.val[arr[1]] = heap.val[Slot(st["s"], 0)]

\* Witness of C12 on the empty stack: NULL, *out_size = 0, no copy made.
C12_WitnessEmpty ==
  /\ op = "to_array"
  /\ pc = "running"
  /\ ret = NULL
  /\ outSize = 0
  /\ heap.nh = 0

\* C13: contains.  On a stack constructed with a comparator, a contains that
\* returns yields TRUE exactly if the element at some index in [0, size)
\* compares equal (cmp = 0) to the element asked for; so it yields FALSE on
\* an empty stack, and elements that were popped or cleared are not found.
\* The stacks and the elements are left as they were.
C13_Step ==
  \A k \in StackIds :
    (op' = "contains" /\ tgt' = k /\ pc' = "running" /\ st[k].cmp) =>
      /\ ret' \in BOOLEAN
      /\ ret' = (\E i \in LiveIdx(st[k]) : cmp(heap.val[Slot(st[k], i)], arg') = 0)
      /\ st[k].size = 0 => ret' = FALSE
      /\ st' = st
      /\ heap' = heap

\* C13: every returning contains on a stack with a comparator is as described.
C13_Contains == [][C13_Step]_vars

\* Witness of C13: the element asked for is found at index 1, after the
\* element at index 0 compared different.
C13_Witness ==
  /\ op = "contains"
  /\ pc = "running"
  /\ st["s"].cmp
  /\ ret = TRUE
  /\ st["s"].size >= 2
  /\ heap.val[Slot(st["s"], 0)] # arg
  /\ heap.val[Slot(st["s"], 1)] = arg

\* Witness of C13, not found: the only element of the value asked for was
\* popped; the stack still holds another element.
C13_WitnessPopped ==
  /\ op = "contains"
  /\ pc = "running"
  /\ st["s"].cmp
  /\ ret = FALSE
  /\ st["s"].size >= 1
  /\ \E h \in 1..heap.nh : heap.owner[h] = "caller" /\ heap.val[h] = arg

\* While a driver run fills the stack, the stack holds the handles its pushes
\* stored since it was last empty, in order.
C14_Inv ==
  mode = "pushing" =>
    /\ st["s"].size = Len(pushLog)
    /\ \A i \in 1..Len(pushLog) : st["s"].data[i] = pushLog[i]

\* C14: push/pop round trip.  A pop that directly follows a returning push on
\* the same stack returns the handle that the push's call of copy made, an
\* element intact, of the value pushed (cmp = 0), now the caller's and never
\* released; the size is one less than after the push, and every element
\* below keeps its index, handle and value.  In a driver run, whose log tells
\* what the stack held before the push, the size and the elements are those
\* from before the push.
C14_Step ==
  \A k \in StackIds :
    (op = "push" /\ tgt = k /\ pc = "running" /\ op' = "pop" /\ tgt' = k) =>
      /\ pc' = "running"
      /\ ret' # NULL
      /\ ret' = heap.nh
      /\ heap'.val[ret'] = arg
      /\ cmp(heap'.val[ret'], arg) = 0
      /\ heap'.owner[ret'] = "caller"
      /\ heap'.rel[ret'] = 0
      /\ st'[k].size = st[k].size - 1
      /\ \A i \in LiveIdx(st'[k]) :
           /\ Slot(st'[k], i) = Slot(st[k], i)
           /\ heap'.val[Slot(st[k], i)] = heap.val[Slot(st[k], i)]
           /\ heap'.owner[Slot(st[k], i)] = k
      /\ mode = "pushing" =>
           /\ st'[k].size = Len(pushLog) - 1
           /\ \A i \in 1..(Len(pushLog) - 1) : st'[k].data[i] = pushLog[i]

\* C14: the log of a filling driver run is what its stack holds, and every
\* pop that directly follows a push is as described above.
C14_PushPopRoundTrip == [](C14_Inv) /\ [][C14_Step]_vars

\* Witness of C14: the push onto a full stack of 8 elements, which grew it,
\* directly followed by a pop: 8 elements are left, as before the push.
C14_Witness ==
  /\ mode = "popped"
  /\ op = "pop"
  /\ Len(popLog) = 1
  /\ Len(pushLog) = STACK_INITIAL_CAPACITY + 1
  /\ ret = pushLog[STACK_INITIAL_CAPACITY + 1]
  /\ st["s"].size = STACK_INITIAL_CAPACITY
  /\ st["s"].capacity = 2 * STACK_INITIAL_CAPACITY

\* C15 as stated: contains on a stack constructed without a comparator ends
\* in a call through the null function pointer, not in a boolean result, in
\* every state of the stack, the empty stack included.
C15_NullCallInEveryState ==
  (op = "contains" /\ tgt \in StackIds /\ st[tgt].exists /\ ~st[tgt].cmp) =>
    pc = "crashed"

\* C15 (amended): contains on a stack constructed without a comparator calls
\* through the null function pointer, and yields no boolean result, exactly
\* if the stack is not empty; on an empty stack the loop body never runs, no
\* comparator is called, and contains returns false.  Either way the stack
\* and the elements are left as they were.
C15_Step ==
  \A k \in StackIds :
    (op' = "contains" /\ tgt' = k /\ ~st[k].cmp) =>
      /\ st' = st
      /\ heap' = heap
      /\ IF st[k].size > 0
         THEN pc' = "crashed" /\ ret' = ret
         ELSE pc' = "running" /\ ret' = FALSE

\* C15 (amended): every contains on a stack without a comparator is as above.
C15_ContainsWithoutCmp == [][C15_Step]_vars

\* Witness of C15: contains on a stack of 2 elements and no comparator ended
\* in the call through the null pointer.
C15_Witness ==
  /\ op = "contains"
  /\ tgt = "s"
  /\ ~st["s"].cmp
  /\ st["s"].size = 2
  /\ pc = "crashed"

\* C16 as stated: when new_stack cannot allocate the struct or the initial
\* buffer, it returns NULL to its caller, who goes on running, and no partly
\* constructed stack is left behind.
C16_NewStackReturnsNull ==
  (op = "new_stack" /\ tgt \in StackIds /\ ~st[tgt].exists) =>
    /\ pc = "running"
    /\ ret = NULL

\* In every state, that of a failed growth included, the buffer of a stack
\* has capacity slots and every slot below size holds a stored element.
C17_Inv ==
  \A k \in Existing :
    /\ Len(st[k].data) = st[k].capacity
    /\ st[k].size <= st[k].capacity
    /\ \A i \in LiveIdx(st[k]) :
         /\ Slot(st[k], i) \in Handles
         /\ heap.owner[Slot(st[k], i)] = k

\* A push ends the process only when it found the stack full (the realloc in
\* grow failed); at that point the stack (data, size, capacity) and the
\* elements are exactly as before the push: no copy was made, nothing was
\* released.  The process takes no step after it has ended.
C17_Step ==
  /\ pc = "running"
  /\ \A k \in StackIds :
       (op' = "push" /\ tgt' = k /\ pc' = "exited") =>
         /\ st[k].size = st[k].capacity
         /\ st' = st
         /\ heap' = heap

\* C17: growth is all-or-nothing.  A failed growth is fatal and leaves the
\* stack as it was before the push, and no state has a capacity that is not
\* the length of the buffer or a size that counts a slot with no element.
C17_GrowthAllOrNothing == [](C17_Inv) /\ [][C17_Step]_vars

\* Witness of C17: the ninth push of a driver run ended the process; the
\* stack still holds the 8 elements pushed before, in a buffer of 8 slots.
C17_Witness ==
  /\ op = "push"
  /\ pc = "exited"
  /\ mode = "pushing"
  /\ Len(pushLog) = STACK_INITIAL_CAPACITY
  /\ st["s"].size = STACK_INITIAL_CAPACITY
  /\ st["s"].capacity = STACK_INITIAL_CAPACITY
  /\ Len(st["s"].data) = STACK_INITIAL_CAPACITY
  /\ \A i \in 1..STACK_INITIAL_CAPACITY : st["s"].data[i] = pushLog[i]

\* After one reverse of a filled stack the handle the i-th push stored is at
\* index n - i (counting pushes from 1), and the pops that follow return the
\* handles in the order of their insertion, then NULL.
C18_Inv ==
  /\ mode = "reversed" =>
       /\ st["s"].size = Len(pushLog)
       /\ \A i \in 1..Len(pushLog) :
            Slot(st["s"], Len(pushLog) - i) = pushLog[i]
  /\ mode \in {"rpopping", "rdone"} =>
       /\ Len(popLog) <= Len(pushLog) + 1
       /\ \A i \in 1..Len(popLog) :
            popLog[i] = IF i <= Len(pushLog) THEN pushLog[i] ELSE NULL
       /\ mode = "rdone" => Len(popLog) = Len(pushLog) + 1

\* C18: a single reverse.  On a stack of size n the handle at index i moves
\* to index n - 1 - i, for every i in [0, n); size and capacity, the slots
\* from size on, the other stack and all elements are unchanged: no copy is
\* made, nothing is released, and the stack holds the same set of handles.
\* On an empty stack nothing changes.
C18_Step ==
  \A k \in StackIds :
    (op' = "reverse" /\ tgt' = k /\ pc' = "running") =>
      LET n == st[k].size
      IN /\ \A i \in LiveIdx(st[k]) : Slot(st'[k], n - 1 - i) = Slot(st[k], i)
         /\ st'[k].size = n
         /\ st'[k].capacity = st[k].capacity
         /\ Len(st'[k].data) = Len(st[k].data)
         /\ \A i \in DeadIdx(st[k]) : Slot(st'[k], i) = Slot(st[k], i)
         /\ LiveSet(st'[k]) = LiveSet(st[k])
         /\ \A j \in StackIds \ {k} : st'[j] = st[j]
         /\ heap' = heap
         /\ n = 0 => st' = st

\* C18: every reverse is as described above, and after the reverse of a
\* filled stack the pops return the elements in insertion order.
C18_SingleReverse == [](C18_Inv) /\ [][C18_Step]_vars

\* Witness of C18: a stack of at least 3 elements was reversed and then
\* popped empty, the last pop returning NULL.
C18_Witness ==
  /\ mode = "rdone"
  /\ op = "pop"
  /\ Len(pushLog) >= 3
  /\ Len(popLog) = Len(pushLog) + 1
  /\ popLog[1] = pushLog[1]
  /\ popLog[3] = pushLog[3]

\* The operations that only inspect the stack they are called on (clone: its
\* source).
ReadOnlyOps == {"peek", "is_empty", "size", "capacity", "contains", "to_array", "clone"}

\* C19: read-only operations.  peek, is_empty, size, capacity, contains,
\* to_array and clone leave the stack they are called on unchanged (size,
\* capacity, every slot), release nothing, and leave every element that
\* existed before as it was, however the call ends.  peek on a non-empty
\* stack returns the handle at index size - 1, and a pop that directly
\* follows it returns that same handle; is_empty, size and capacity return
\* what the stack's fields say.
C19_Step ==
  \A k \in StackIds :
    /\ (op' \in ReadOnlyOps /\ tgt' = k) =>
         /\ st'[k] = st[k]
         /\ heap'.rel = heap.rel
         /\ \A h \in 1..heap.nh :
              /\ heap'.val[h] = heap.val[h]
              /\ heap'.owner[h] = heap.owner[h]
    /\ (op' = "peek" /\ tgt' = k /\ st[k].size > 0) =>
         /\ ret' = Slot(st[k], st[k].size - 1)
         /\ ret' # NULL
    /\ (op' = "is_empty" /\ tgt' = k) => ret' = (st[k].size = 0)
    /\ (op' = "size" /\ tgt' = k) => ret' = st[k].size
    /\ (op' = "capacity" /\ tgt' = k) => ret' = st[k].capacity
    /\ (op = "peek" /\ tgt = k /\ op' = "pop" /\ tgt' = k /\ st[k].size > 0) =>
         ret' = ret

\* C19: every step of a read-only operation is as described above.
C19_ReadOnly == [][C19_Step]_vars

\* Witness of C19: a peek on a stack of at least 2 elements returned the top
\* handle; the stack holds all the elements of its filling.
C19_Witness ==
  /\ op = "peek"
  /\ tgt = "s"
  /\ st["s"].size >= 2
  /\ st["s"].size = Len(pushLog)
  /\ ret = pushLog[Len(pushLog)]
  /\ heap.owner[ret] = "s"

\* Witness of C19: a pop directly after a peek returned the handle the peek
\* had returned (the element is the caller's now, the slot is vacated).
C19_WitnessPeekPop ==
  /\ op = "pop"
  /\ mode = "shaping"
  /\ st["s"].size + 1 = Len(pushLog)
  /\ st["s"].size >= 1
  /\ ret = pushLog[Len(pushLog)]

\* The neutral result of operation o: true for is_empty, false for contains,
\* NULL or 0 or nothing for the others.
ReturnedNeutral(o) ==
  IF o = "is_empty" THEN ret = TRUE
  ELSE IF o = "contains" THEN ret = FALSE
  ELSE ret = NULL

\* C20 as stated: every public operation called with a NULL stack pointer
\* completes, returning its neutral result, without reading through the
\* pointer.
C20_NullHandleSafe ==
  tgt = NullStack => (pc = "running" /\ ReturnedNeutral(op) /\ arr = <<>>)

\* What holds of the code: the ten operations that test the pointer return
\* their neutral result on NULL and change nothing; reverse and to_array read
\* stack->size through it.
C20_NullHandleStep ==
  tgt' = NullStack =>
    /\ st' = st
    /\ heap' = heap
    /\ IF op' \in {"reverse", "to_array"}
       THEN pc' = "crashed"
       ELSE pc' = "running" /\ ReturnedNeutral(op)' /\ arr' = <<>> /\ outSize' = Indet

C20_NullHandleTenSafe == [][C20_NullHandleStep]_vars

====
